---- MODULE Spec2Model ----
(***************************************************************************)
(* serialchemy.model_serializer.ModelSerializer: field resolution at       *)
(* construction, lazy default-serializer assignment, dump and load.        *)
(*                                                                         *)
(* Python dicts are ordered, so every dict of the program (the fields      *)
(* collection, a serialized payload, dir(cls)) is a sequence of            *)
(* <<key, value>> pairs with distinct keys.  Attribute and property names  *)
(* are sequences of one-character strings, so that startswith('_') is      *)
(* computed and not looked up.  Python values are tuples: <<"None">>,      *)
(* <<"int", n>>, and the results of the converters, which live outside     *)
(* this file and are kept uninterpreted: <<"dump", serializer, v>>,        *)
(* <<"load", serializer, v>>, <<"load_s", serializer, v, session>>.        *)
(***************************************************************************)
EXTENDS Integers, Sequences, FiniteSets, TLC

VARIABLES
    cls_is_base,        \* cls is ModelSerializer (no subclass)
    cls_attrs,          \* dir(cls) with getattr(cls, name): <<name, fid>>, fid = 0 for a non-Field
    model_columns,      \* _mapper_class.__mapper__.c        : <<name, property>> pairs
    model_composites,   \* _mapper_class.__mapper__.composites
    model_truthy,       \* bool(instance) for instances of the model class
    _fields,            \* self._fields : <<name, fid>> pairs
    fobj,               \* the Field objects, by identity fid
    writes,             \* per Field object: executions of line 145 (field._serializer = ...)
    models,             \* the model instances the caller holds, by identity (index)
    call,               \* the last dump/load call: arguments, result, heap before and after
    ncalls,             \* calls made so far
    pc,                 \* SpecRace: where each of the two concurrent calls stands
    lidx,               \* SpecRace: each call's index into EXTRA_SERIALIZERS (line 143)
    rop,                \* SpecRace: each call's operation, dump or load
    used,               \* SpecRace: what each call's field.dump / field.load returned
    fwrites             \* SpecRace: executions of line 145 by each call

vars == <<cls_is_base, cls_attrs, model_columns, model_composites, model_truthy,
          _fields, fobj, writes, models, call, ncalls,
          pc, lidx, rop, used, fwrites>>

class_vars == <<cls_is_base, cls_attrs, model_columns, model_composites, model_truthy>>
race_vars == <<pc, lidx, rop, used, fwrites>>

----------------------------------------------------------------------------
(* Bounds *)
MaxCalls == 3       \* dump/load calls in one run
MaxLen == 2         \* keys in a serialized payload given to load

(* Names *)
Na == <<"a">>               \* a column
Nb == <<"b">>               \* a composite property
Np == <<"_", "p">>          \* a private column
Nx == <<"x">>               \* not a model property
Nload == <<"l", "o", "a", "d">>   \* a class attribute that is no Field (a method)

None == <<"None">>
IntVal(n) == <<"int", n>>
NoSession == "None"
InputValues == {IntVal(2)}
Sessions == {"session"}

----------------------------------------------------------------------------
(* Ordered dicts *)
EmptyDict == <<>>
Keys(d) == {d[i][1] : i \in DOMAIN d}
Has(d, k) == \E i \in DOMAIN d : d[i][1] = k
Get(d, k) == d[CHOOSE i \in DOMAIN d : d[i][1] = k][2]
DictSet(d, k, v) ==
    IF Has(d, k) THEN [i \in DOMAIN d |-> IF d[i][1] = k THEN <<k, v>> ELSE d[i]]
    ELSE Append(d, <<k, v>>)
SetDefault(d, k, v) == IF Has(d, k) THEN d ELSE Append(d, <<k, v>>)

RECURSIVE DictUpdate(_, _)
DictUpdate(d, u) ==
    IF u = <<>> THEN d ELSE DictUpdate(DictSet(d, Head(u)[1], Head(u)[2]), Tail(u))

startswith(name, ch) == Len(name) >= 1 /\ name[1] = ch

----------------------------------------------------------------------------
(* Field objects *)
Field(lo, do, co, ser, sb, tr) ==
    [load_only |-> lo, dump_only |-> do, creation_only |-> co, serializer |-> ser,
     session_based |-> sb, truthy |-> tr]

NoSerializer == "None"
DefaultField == Field(FALSE, FALSE, FALSE, NoSerializer, FALSE, TRUE)

(* Field.dump / Field.load and the converters behind them live in field.py and
   the serializer modules, outside this file: a field with a serializer
   delegates to it, a field without one returns the value unchanged.  What a
   converter computes is left uninterpreted. *)
FieldDump(field, value) ==
    IF field.serializer # NoSerializer THEN <<"dump", field.serializer, value>> ELSE value
FieldLoad(field, value) ==
    IF field.serializer # NoSerializer THEN <<"load", field.serializer, value>> ELSE value
FieldLoadSession(field, value, session) ==
    <<"load_s", field.serializer, value, session>>

----------------------------------------------------------------------------
(* ModelSerializer *)

\* A model property is the record of what the three predicates answer on it.
PropKinds ==
    [is_datetime_column : BOOLEAN, is_date_column : BOOLEAN, is_enum_column : BOOLEAN]
PlainProp ==
    [is_datetime_column |-> FALSE, is_date_column |-> FALSE, is_enum_column |-> FALSE]
serializer_check(check, model_property) == model_property[check]

EXTRA_SERIALIZERS ==
    << <<"DateTimeColumnSerializer", "is_datetime_column">>,
       <<"DateColumnSerializer", "is_date_column">>,
       <<"EnumSerializer", "is_enum_column">> >>

model_properties_of(columns, composites) ==
    LET withColumns == IF columns # <<>> THEN DictUpdate(EmptyDict, columns) ELSE EmptyDict
    IN  IF composites # <<>> THEN DictUpdate(withColumns, composites) ELSE withColumns

model_properties == model_properties_of(model_columns, model_composites)

\* _get_declared_fields: the class attributes that are Field instances.
_get_declared_fields(is_base, attrs) ==
    IF is_base THEN EmptyDict ELSE SelectSeq(attrs, LAMBDA p : p[2] # 0)

\* the implicit pass written as a plain assignment: it replaces a declared Field
Mut_InsertImplicit(fields, property_name, fid) == DictSet(fields, property_name, fid)

\* line 32: self._fields.setdefault(property_name, Field())
InsertImplicit(fields, property_name, fid) == SetDefault(fields, property_name, fid)

\* __init__, lines 27-32.  st = [fields, fobj]; Field() is constructed on every
\* pass of the loop that reaches line 32, whether or not setdefault keeps it.
RECURSIVE CollectLoop(_, _, _)
CollectLoop(st, props, i) ==
    IF i > Len(props) THEN st
    ELSE LET property_name == props[i][1]
         IN  IF startswith(property_name, "_") THEN CollectLoop(st, props, i + 1)
             ELSE LET fo == Append(st.fobj, DefaultField)
                  IN  CollectLoop([fields |-> InsertImplicit(st.fields, property_name, Len(fo)),
                                   fobj |-> fo], props, i + 1)

Construct(is_base, attrs, declared_objs, columns, composites) ==
    CollectLoop([fields |-> _get_declared_fields(is_base, attrs), fobj |-> declared_objs],
                model_properties_of(columns, composites), 1)

\* One pass of the loop of lines 143-145 over fw = [serializer, writes].
ExtraSerializersStep(fw, model_property, i) ==
    IF serializer_check(EXTRA_SERIALIZERS[i][2], model_property)
    THEN [serializer |-> EXTRA_SERIALIZERS[i][1], writes |-> fw.writes + 1]
    ELSE fw

RECURSIVE ExtraSerializersLoop(_, _, _)
ExtraSerializersLoop(fw, model_property, i) ==
    IF i > Len(EXTRA_SERIALIZERS) THEN fw
    ELSE ExtraSerializersLoop(ExtraSerializersStep(fw, model_property, i), model_property, i + 1)

\* line 142
NeedsDefault(field, props, property_name) ==
    field.serializer = NoSerializer /\ Has(props, property_name)

\* _assign_default_field_serializer on the Field object fid; st carries fobj, writes.
_assign_default_field_serializer(st, fid, property_name) ==
    IF NeedsDefault(st.fobj[fid], model_properties, property_name)
    THEN LET r == ExtraSerializersLoop(
                      [serializer |-> st.fobj[fid].serializer, writes |-> st.writes[fid]],
                      Get(model_properties, property_name), 1)
         IN  [st EXCEPT !.fobj[fid].serializer = r.serializer,
                        !.writes[fid] = r.writes,
                        !.looked = Append(@, property_name)]
    ELSE [st EXCEPT !.looked = Append(@, property_name)]

\* getattr(model, attr, None)
getattr(attrs, attr) == IF attr \in DOMAIN attrs THEN attrs[attr] ELSE None
\* setattr(model, attr, value)
setattr(attrs, attr, value) ==
    [n \in DOMAIN attrs \cup {attr} |-> IF n = attr THEN value ELSE attrs[n]]

\* dump testing the wrong flag
Mut_DumpSkips(field) == field.dump_only

\* line 69
DumpSkips(field) == field.load_only

\* dump, lines 68-77.  st = [serial, fobj, writes, looked].
RECURSIVE DumpLoop(_, _, _)
DumpLoop(st, attrs, i) ==
    IF i > Len(_fields) THEN st
    ELSE LET attr == _fields[i][1]
             fid == _fields[i][2]
             field == st.fobj[fid]
         IN  IF DumpSkips(field) THEN DumpLoop(st, attrs, i + 1)
             ELSE LET value == getattr(attrs, attr)
                      st1 == IF field.truthy
                             THEN _assign_default_field_serializer(st, fid, attr)
                             ELSE st
                      serialized == IF field.truthy THEN FieldDump(st1.fobj[fid], value)
                                    ELSE value
                  IN  DumpLoop([st1 EXCEPT !.serial = DictSet(@, attr, serialized)],
                               attrs, i + 1)

dump(fo, wr, attrs) ==
    DumpLoop([serial |-> EmptyDict, fobj |-> fo, writes |-> wr, looked |-> <<>>], attrs, 1)

\* bool(existing_model), lines 94 and 106: None is false, an instance answers for itself.
Truth(ms, existing) == existing # 0 /\ ms[existing].truthy

\* _create_model, line 130: model_class(); a new instance has every mapped
\* property set to None.
_create_model(serialized) ==
    [truthy |-> model_truthy, attrs |-> [n \in Keys(model_properties) |-> None]]

\* an unknown key warned about and then written to the model all the same
Mut_LoadUnknown(st, field_name) ==
    [st EXCEPT !.warned = Append(@, field_name), !.attrs = setattr(@, field_name, None)]
\* the dump_only test left out
Mut_SkipsDumpOnly(field) == FALSE
\* the creation_only test made without looking at existing_model
Mut_SkipsCreationOnly(field, existing_truth) == field.creation_only

\* lines 100-102: warnings.warn(...); continue
LoadUnknown(st, field_name) == [st EXCEPT !.warned = Append(@, field_name)]
\* lines 104-105
SkipsDumpOnly(field) == field.dump_only
\* lines 106-107
SkipsCreationOnly(field, existing_truth) == field.creation_only /\ existing_truth

\* lines 108-113
LoadField(st, field_name, value, session) ==
    LET fid == Get(_fields, field_name)
        st1 == _assign_default_field_serializer(st, fid, field_name)
        field == st1.fobj[fid]
        deserialized == IF field.session_based THEN FieldLoadSession(field, value, session)
                        ELSE FieldLoad(field, value)
    IN  [st1 EXCEPT !.attrs = setattr(@, field_name, deserialized),
                    !.loaded = Append(@, field_name)]

\* One pass of the loop of lines 99-113.
LoadStep(st, field_name, value, existing_truth, session) ==
    IF ~Has(_fields, field_name) THEN LoadUnknown(st, field_name)
    ELSE LET field == st.fobj[Get(_fields, field_name)]
         IN  IF SkipsDumpOnly(field) THEN st
             ELSE IF SkipsCreationOnly(field, existing_truth) THEN st
             ELSE LoadField(st, field_name, value, session)

RECURSIVE LoadLoop(_, _, _, _, _)
LoadLoop(st, serialized, existing_truth, session, i) ==
    IF i > Len(serialized) THEN st
    ELSE LoadLoop(LoadStep(st, serialized[i][1], serialized[i][2], existing_truth, session),
                  serialized, existing_truth, session, i + 1)

\* lines 94-98: the model the loop writes to.  [models, target]
LoadTarget(ms, serialized, existing) ==
    IF Truth(ms, existing) THEN [models |-> ms, target |-> existing]
    ELSE [models |-> Append(ms, _create_model(serialized)), target |-> Len(ms) + 1]

\* lines 113-114 seen from outside: the target holds the attributes the loop set
LoadReturn(t, st) ==
    [models |-> [t.models EXCEPT ![t.target].attrs = st.attrs],
     fobj |-> st.fobj, writes |-> st.writes, ret |-> t.target,
     warned |-> st.warned, loaded |-> st.loaded, looked |-> st.looked]

LoadInto(t, fo, wr, serialized, existing_truth, session) ==
    LoadReturn(t, LoadLoop([attrs |-> t.models[t.target].attrs, fobj |-> fo, writes |-> wr,
                            looked |-> <<>>, warned |-> <<>>, loaded |-> <<>>],
                           serialized, existing_truth, session, 1))

\* load: [models, fobj, writes, ret, warned, loaded, looked]
load(fo, wr, ms, serialized, existing, session) ==
    LoadInto(LoadTarget(ms, serialized, existing), fo, wr, serialized,
             Truth(ms, existing), session)

----------------------------------------------------------------------------
(* The classes and payloads explored *)

DeclKinds ==
    { DefaultField,
      Field(TRUE, FALSE, FALSE, NoSerializer, FALSE, TRUE),
      Field(FALSE, TRUE, FALSE, NoSerializer, FALSE, TRUE),
      Field(FALSE, FALSE, TRUE, NoSerializer, FALSE, TRUE),
      Field(FALSE, TRUE, TRUE, NoSerializer, FALSE, TRUE),
      Field(FALSE, FALSE, FALSE, "CustomSerializer", FALSE, TRUE),
      Field(FALSE, FALSE, FALSE, "NestedSerializer", TRUE, TRUE),
      Field(FALSE, FALSE, FALSE, NoSerializer, FALSE, FALSE) }

\* dir(cls) is sorted by name: a, load, x.
SerializerClasses ==
    { [is_base |-> TRUE, attrs |-> << <<Nload, 0>> >>, objs |-> <<>>],
      [is_base |-> FALSE, attrs |-> << <<Nload, 0>> >>, objs |-> <<>>] }
    \cup { [is_base |-> FALSE, attrs |-> << <<Na, 1>>, <<Nload, 0>>, <<Nx, 2>> >>,
            objs |-> <<k, DefaultField>>] : k \in DeclKinds }
    \cup { [is_base |-> FALSE, attrs |-> << <<Na, 1>>, <<Nload, 0>>, <<Nx, 1>> >>,
            objs |-> <<k>>] : k \in {DefaultField} }

\* column a with every combination of predicate answers: none, one, several
MainModelClasses ==
    { [columns |-> << <<Na, p>>, <<Np, PlainProp>> >>, composites |-> << <<Nb, PlainProp>> >>]
        : p \in PropKinds }
\* a mapper with no composites, a mapper with no columns
EdgeModelClasses ==
    { [columns |-> << <<Na, PlainProp>> >>, composites |-> <<>>],
      [columns |-> <<>>, composites |-> << <<Nb, PlainProp>> >>] }

Classes ==
    (SerializerClasses \X MainModelClasses)
    \cup ({sc \in SerializerClasses : Len(sc.objs) = 0} \X EdgeModelClasses)

PayloadKeys == {Na, Nb, Np}
Distinct(seq) == \A i, j \in DOMAIN seq : i # j => seq[i][1] # seq[j][1]
Payloads ==
    UNION { {s \in [1..n -> PayloadKeys \X InputValues] : Distinct(s)} : n \in 0..MaxLen }

NoCall ==
    [op |-> "none", model |-> 0, serialized |-> <<>>, existing |-> 0, session |-> NoSession,
     ret |-> 0, serial |-> <<>>, pre_models |-> <<>>, post_models |-> <<>>,
     pre_fobj |-> <<>>, pre_writes |-> <<>>,
     warned |-> <<>>, loaded |-> <<>>, looked |-> <<>>, dump_looked |-> <<>>]

RaceIdle ==
    pc = <<>> /\ lidx = <<>> /\ rop = <<>> /\ used = <<>> /\ fwrites = <<>>

Init ==
    /\ model_truthy \in BOOLEAN
    /\ \E cl \in Classes :
          LET sc == cl[1]
              mc == cl[2]
              c == Construct(sc.is_base, sc.attrs, sc.objs, mc.columns, mc.composites)
          IN  /\ cls_is_base = sc.is_base
              /\ cls_attrs = sc.attrs
              /\ model_columns = mc.columns
              /\ model_composites = mc.composites
              /\ _fields = c.fields
              /\ fobj = c.fobj
              /\ writes = [i \in DOMAIN c.fobj |-> 0]
              /\ models = << [truthy |-> model_truthy,
                              attrs |-> [n \in Keys(model_properties_of(mc.columns, mc.composites))
                                           |-> IntVal(1)]] >>
    /\ call = NoCall
    /\ ncalls = 0
    /\ RaceIdle

\* The caller keeps the model it started with and the one the last load returned.
Held(post, ret) == IF ret = 1 THEN post ELSE <<post[1], post[ret]>>

DumpCall(m) ==
    /\ call.op = "none"
    /\ ncalls < MaxCalls
    /\ \E r \in {dump(fobj, writes, models[m].attrs)} :
        /\ fobj' = r.fobj
        /\ writes' = r.writes
        /\ call' = [NoCall EXCEPT !.op = "dump", !.model = m, !.serial = r.serial,
                                  !.pre_models = models, !.post_models = models,
                                  !.pre_fobj = fobj, !.pre_writes = writes,
                                  !.dump_looked = r.looked]
    /\ ncalls' = ncalls + 1
    /\ UNCHANGED <<class_vars, _fields, models, race_vars>>

LoadCall(serialized, existing, session) ==
    /\ call.op = "none"
    /\ ncalls < MaxCalls
    /\ \E r \in {load(fobj, writes, models, serialized, existing, session)} :
           /\ fobj' = r.fobj
           /\ writes' = r.writes
           /\ models' = Held(r.models, r.ret)
           /\ call' = [NoCall EXCEPT !.op = "load", !.serialized = serialized,
                                     !.existing = existing, !.session = session,
                                     !.ret = r.ret,
                                     !.pre_models = models, !.post_models = r.models,
                                     !.pre_fobj = fobj, !.pre_writes = writes,
                                     !.warned = r.warned, !.loaded = r.loaded,
                                     !.looked = r.looked]
    /\ ncalls' = ncalls + 1
    /\ UNCHANGED <<class_vars, _fields, race_vars>>

\* load(dump(model)) with no existing model
RoundTripCall(m) ==
    /\ call.op = "none"
    /\ ncalls < MaxCalls
    /\ \E d \in {dump(fobj, writes, models[m].attrs)} :
         \E r \in {load(d.fobj, d.writes, models, d.serial, 0, NoSession)} :
           /\ fobj' = r.fobj
           /\ writes' = r.writes
           /\ models' = Held(r.models, r.ret)
           /\ call' = [NoCall EXCEPT !.op = "roundtrip", !.model = m, !.serial = d.serial,
                                     !.serialized = d.serial, !.ret = r.ret,
                                     !.pre_models = models, !.post_models = r.models,
                                     !.pre_fobj = fobj, !.pre_writes = writes,
                                     !.warned = r.warned, !.loaded = r.loaded,
                                     !.looked = r.looked, !.dump_looked = d.looked]
    /\ ncalls' = ncalls + 1
    /\ UNCHANGED <<class_vars, _fields, race_vars>>

\* The call has returned and the caller has taken its result: the record of the
\* call is dropped.  Calls do not overlap (single-threaded, synchronous).
Return ==
    /\ call.op # "none"
    /\ call' = NoCall
    /\ UNCHANGED <<class_vars, _fields, fobj, writes, models, ncalls, race_vars>>

Next ==
    \/ \E m \in DOMAIN models : DumpCall(m)
    \/ \E serialized \in Payloads, existing \in 0..Len(models), session \in Sessions :
          LoadCall(serialized, existing, session)
    \/ \E m \in DOMAIN models : RoundTripCall(m)
    \/ Return

Spec == Init /\ [][Next]_vars

----------------------------------------------------------------------------
(* Two calls of dump/load running at once on one serializer, both on the
   field of column a, each on a model instance of its own.  The steps are the
   reads and writes of the shared Field object: the test of line 142, each
   pass of the loop of lines 143-145, and the read of the serializer inside
   field.dump / field.load (lines 74, 112). *)
Calls == {1, 2}
RaceField == Get(_fields, Na)
RaceValue(t) == IF rop[t] = "dump" THEN IntVal(1) ELSE IntVal(2)

InitRace ==
    /\ model_truthy = TRUE
    /\ cls_is_base = TRUE
    /\ cls_attrs = << <<Nload, 0>> >>
    /\ \E p \in PropKinds :
          LET c == Construct(TRUE, << <<Nload, 0>> >>, <<>>, << <<Na, p>> >>, <<>>)
          IN  /\ model_columns = << <<Na, p>> >>
              /\ model_composites = <<>>
              /\ _fields = c.fields
              /\ fobj = c.fobj
              /\ writes = [i \in DOMAIN c.fobj |-> 0]
    /\ models = << [truthy |-> TRUE, attrs |-> [n \in {Na} |-> IntVal(1)]] >>
    /\ call = NoCall
    /\ ncalls = 0
    /\ pc = [t \in Calls |-> "check"]
    /\ lidx = [t \in Calls |-> 1]
    /\ rop \in [Calls -> {"dump", "load"}]
    /\ used = [t \in Calls |-> None]
    /\ fwrites = [t \in Calls |-> 0]

main_vars == <<class_vars, _fields, models, call, ncalls>>

\* line 142
RaceCheck(t) ==
    /\ pc[t] = "check"
    /\ pc' = [pc EXCEPT ![t] = IF NeedsDefault(fobj[RaceField], model_properties, Na)
                               THEN "loop" ELSE "convert"]
    /\ UNCHANGED <<main_vars, fobj, writes, lidx, rop, used, fwrites>>

\* lines 143-145, one pass
RaceLoop(t) ==
    /\ pc[t] = "loop"
    /\ \E fw \in {ExtraSerializersStep([serializer |-> fobj[RaceField].serializer,
                                        writes |-> writes[RaceField]],
                                       Get(model_properties, Na), lidx[t])} :
          /\ fobj' = [fobj EXCEPT ![RaceField].serializer = fw.serializer]
          /\ fwrites' = [fwrites EXCEPT ![t] = @ + (fw.writes - writes[RaceField])]
          /\ writes' = [writes EXCEPT ![RaceField] = fw.writes]
    /\ lidx' = [lidx EXCEPT ![t] = @ + 1]
    /\ pc' = [pc EXCEPT ![t] = IF lidx[t] + 1 > Len(EXTRA_SERIALIZERS)
                               THEN "convert" ELSE "loop"]
    /\ UNCHANGED <<main_vars, rop, used>>

\* line 74 (dump) or line 112 (load)
RaceConvert(t) ==
    /\ pc[t] = "convert"
    /\ used' = [used EXCEPT ![t] = IF rop[t] = "dump"
                                   THEN FieldDump(fobj[RaceField], RaceValue(t))
                                   ELSE FieldLoad(fobj[RaceField], RaceValue(t))]
    /\ pc' = [pc EXCEPT ![t] = "done"]
    /\ UNCHANGED <<main_vars, fobj, writes, lidx, rop, fwrites>>

NextRace ==
    \E t \in Calls : RaceCheck(t) \/ RaceLoop(t) \/ RaceConvert(t)

SpecRace == InitRace /\ [][NextRace]_vars

----------------------------------------------------------------------------
(* Properties.  They read the record of the last call: the heap before it
   (pre_models) and after it (post_models), its arguments and its result. *)

Range(seq) == {seq[i] : i \in DOMAIN seq}
SameAttr(a1, a2, n) ==
    /\ (n \in DOMAIN a1) = (n \in DOMAIN a2)
    /\ n \in DOMAIN a1 => a1[n] = a2[n]
FieldNamed(n) == fobj[Get(_fields, n)]
LoadReturned == call.op \in {"load", "roundtrip"}
DumpReturned == call.op \in {"dump", "roundtrip"}
Created == call.ret > Len(call.pre_models)
\* the attributes of the model load wrote to, as they were before its loop
TargetBefore ==
    IF Created THEN _create_model(call.serialized).attrs
    ELSE call.pre_models[call.ret].attrs
TargetAfter == call.post_models[call.ret].attrs

\* the serializer paired with the first predicate that holds, in list order
FirstMatch(p) ==
    LET holds == {i \in DOMAIN EXTRA_SERIALIZERS : serializer_check(EXTRA_SERIALIZERS[i][2], p)}
    IN  IF holds = {} THEN NoSerializer
        ELSE EXTRA_SERIALIZERS[CHOOSE i \in holds : \A j \in holds : i <= j][1]

\* C1: when _assign_default_field_serializer runs on a field with no
\* serializer for a known model property, the serializer it leaves attached is
\* the one of the first predicate that holds (datetime, date, enum), and none
\* when no predicate holds.
C1_FirstMatchWins ==
    \A n \in Range(call.looked) \cup Range(call.dump_looked) :
        (Has(model_properties, n)
            /\ call.pre_fobj[Get(_fields, n)].serializer = NoSerializer)
        => FieldNamed(n).serializer = FirstMatch(Get(model_properties, n))

\* C2: load with an existing model given (whatever its truth value) returns
\* that model, creates no model, and leaves every attribute that is not a key
\* of the payload as it was.
C2_ExistingModelReturned ==
    (call.op = "load" /\ call.existing # 0)
    => /\ call.ret = call.existing
       /\ Len(call.post_models) = Len(call.pre_models)
       /\ \A n \in (DOMAIN call.pre_models[call.existing].attrs
                      \cup DOMAIN call.post_models[call.existing].attrs)
                   \ Keys(call.serialized) :
              SameAttr(call.post_models[call.existing].attrs,
                       call.pre_models[call.existing].attrs, n)

\* the value line 113 assigns for a payload entry of field n
LoadedValue(n, value) ==
    IF FieldNamed(n).session_based THEN FieldLoadSession(FieldNamed(n), value, call.session)
    ELSE FieldLoad(FieldNamed(n), value)

\* C3: for a creation_only field that is not dump_only, load with an existing
\* model ignores the payload's value and leaves the existing model's attribute
\* as it was; load without one assigns the loaded value on the new model.
C3_CreationOnly ==
    call.op = "load" =>
    \A i \in DOMAIN call.serialized :
        LET n == call.serialized[i][1]
        IN  (Has(_fields, n) /\ FieldNamed(n).creation_only /\ ~FieldNamed(n).dump_only)
            => IF call.existing # 0
               THEN /\ n \notin Range(call.loaded)
                    /\ SameAttr(call.post_models[call.existing].attrs,
                                call.pre_models[call.existing].attrs, n)
               ELSE /\ Created
                    /\ n \in DOMAIN TargetAfter
                    /\ TargetAfter[n] = LoadedValue(n, call.serialized[i][2])

\* C4: for a dump_only field, every load (creation or update) ignores the
\* payload's value: the attribute of the model load writes to keeps the value
\* it had before the loop (its construction-time value on creation, its
\* existing value on update), the existing model's attribute is untouched, and
\* neither the default-serializer lookup nor field.load runs for that key.
C4_DumpOnlyIgnored ==
    LoadReturned =>
    \A n \in Keys(call.serialized) :
        (Has(_fields, n) /\ FieldNamed(n).dump_only)
        => /\ n \notin Range(call.loaded)
           /\ n \notin Range(call.looked)
           /\ SameAttr(TargetAfter, TargetBefore, n)
           /\ call.existing # 0 =>
                 SameAttr(call.post_models[call.existing].attrs,
                          call.pre_models[call.existing].attrs, n)

C4_Witness ==
    /\ call.op = "load" /\ call.existing # 0 /\ ~Created
    /\ \E n \in Keys(call.serialized) : Has(_fields, n) /\ FieldNamed(n).dump_only
    /\ call.loaded # <<>>

\* C5: a payload key that is no field name gets a warning and nothing else:
\* load returns, sets no attribute for it, and treats the other keys, before
\* and after it, as it would if the unknown key were absent.
KnownEntries(serialized) == SelectSeq(serialized, LAMBDA e : Has(_fields, e[1]))
UnknownKeys(serialized) ==
    LET unknown == SelectSeq(serialized, LAMBDA e : ~Has(_fields, e[1]))
    IN  [i \in DOMAIN unknown |-> unknown[i][1]]

C5_UnknownKeyIgnored ==
    call.op = "load" =>
    LET without == load(call.pre_fobj, call.pre_writes, call.pre_models,
                        KnownEntries(call.serialized), call.existing, call.session)
    IN  /\ call.warned = UnknownKeys(call.serialized)
        /\ call.ret # 0
        /\ \A n \in Range(call.warned) : SameAttr(TargetAfter, TargetBefore, n)
        /\ call.post_models = without.models
        /\ call.ret = without.ret
        /\ call.loaded = without.loaded
        /\ call.looked = without.looked
        /\ fobj = without.fobj
        /\ writes = without.writes

C5_Witness ==
    /\ call.op = "load"
    /\ Len(call.serialized) = 2
    /\ ~Has(_fields, call.serialized[1][1])
    /\ call.warned # <<>>
    /\ call.loaded = <<call.serialized[2][1]>>

\* C6: the keys of dump(model) include every model property whose name does
\* not start with an underscore and whose field is not load_only, include no
\* load_only field, and a field whose attribute is missing on the model is
\* dumped from None, not left out.
C6_DumpKeys ==
    DumpReturned =>
    /\ \A n \in Keys(model_properties) :
          ~startswith(n, "_")
          => Has(_fields, n) /\ (FieldNamed(n).load_only \/ Has(call.serial, n))
    /\ \A n \in Keys(_fields) : FieldNamed(n).load_only => ~Has(call.serial, n)
    /\ \A n \in Keys(_fields) :
          (~FieldNamed(n).load_only /\ n \notin DOMAIN call.pre_models[call.model].attrs)
          => /\ Has(call.serial, n)
             /\ Get(call.serial, n) = IF FieldNamed(n).truthy
                                      THEN FieldDump(FieldNamed(n), None) ELSE None

C6_Witness ==
    /\ call.op = "dump"
    /\ \E n \in Keys(_fields) : FieldNamed(n).load_only /\ Has(model_properties, n)
    /\ \E n \in Keys(_fields) : n \notin DOMAIN call.pre_models[call.model].attrs
    /\ \E n \in Keys(model_properties) : startswith(n, "_")
    /\ model_composites # <<>>

\* C7: after construction every model property whose name does not start
\* with an underscore is a key of the fields collection, a Field declared on
\* the serializer class for a model property is the object the collection
\* holds, and dump and load never add or remove a key.
C7_FieldsComplete ==
    /\ \A n \in Keys(model_properties) : ~startswith(n, "_") => Has(_fields, n)
    /\ \A i \in DOMAIN cls_attrs :
          (~cls_is_base /\ cls_attrs[i][2] # 0 /\ Has(model_properties, cls_attrs[i][1]))
          => /\ Has(_fields, cls_attrs[i][1])
             /\ Get(_fields, cls_attrs[i][1]) = cls_attrs[i][2]
    /\ Keys(_fields) = Keys(_get_declared_fields(cls_is_base, cls_attrs))
                         \cup {n \in Keys(model_properties) : ~startswith(n, "_")}

C7_Witness ==
    /\ ncalls >= 2 /\ call.op = "load" /\ call.loaded # <<>>
    /\ \E i \in DOMAIN cls_attrs :
          cls_attrs[i][2] # 0 /\ Has(model_properties, cls_attrs[i][1])
    /\ \E n \in Keys(model_properties) : Get(_fields, n) > Len(_get_declared_fields(cls_is_base, cls_attrs))

\* a converter's load applied to what the same converter dumped gives the value back
Unconverted(v) ==
    IF Len(v) = 3 /\ v[1] = "load" /\ Len(v[3]) = 3 /\ v[3][1] = "dump" /\ v[3][2] = v[2]
    THEN v[3][3] ELSE v
CustomSerializers == {"CustomSerializer", "NestedSerializer"}

\* C8, as stated: for every field with no custom serializer, load(dump(m))
\* with no existing model gives a fresh model whose attribute equals m's.
\* (Granted to the claim: a default converter inverts itself, and the Field
\* object is truthy, so that dump and load both go through field.dump/load.)
C8_RoundTripAnyField ==
    call.op = "roundtrip" =>
    \A n \in Keys(_fields) :
        (FieldNamed(n).serializer \notin CustomSerializers /\ FieldNamed(n).truthy)
        => Unconverted(getattr(TargetAfter, n))
              = getattr(call.pre_models[call.model].attrs, n)

\* C8, amended: for every field that is neither load_only nor dump_only and
\* has no serializer (none configured, none attached by default),
\* load(dump(m)) with no existing model gives a fresh model on which the
\* attribute is set and equals what getattr(m, name, None) gave.
C8_RoundTripPlainField ==
    call.op = "roundtrip" =>
    /\ Created
    /\ \A n \in Keys(_fields) :
          (~FieldNamed(n).load_only /\ ~FieldNamed(n).dump_only
              /\ FieldNamed(n).serializer = NoSerializer)
          => /\ n \in DOMAIN TargetAfter
             /\ TargetAfter[n] = getattr(call.pre_models[call.model].attrs, n)

C8_Witness ==
    /\ call.op = "roundtrip"
    /\ \E n \in Keys(_fields) :
          /\ ~FieldNamed(n).load_only /\ ~FieldNamed(n).dump_only
          /\ FieldNamed(n).creation_only
          /\ FieldNamed(n).serializer = NoSerializer
          /\ TargetAfter[n] = IntVal(2)
          /\ TargetBefore[n] = None

\* C9: the serializer reference of a field is written at most once over any
\* sequence of calls: a field that has a serializer is never written again,
\* and one assignment call writes an unset field once.
C9_WrittenAtMostOnce ==
    \A fid \in DOMAIN fobj :
        /\ writes[fid] <= 1
        /\ (call.op # "none" /\ call.pre_fobj[fid].serializer # NoSerializer)
           => /\ fobj[fid].serializer = call.pre_fobj[fid].serializer
              /\ writes[fid] = call.pre_writes[fid]

\* what a call returns for the field when the two calls run one after the other
SequentialSerializer ==
    ExtraSerializersLoop([serializer |-> NoSerializer, writes |-> 0],
                         Get(model_properties, Na), 1).serializer
SequentialResult(t) ==
    IF rop[t] = "dump" THEN FieldDump([serializer |-> SequentialSerializer], RaceValue(t))
    ELSE FieldLoad([serializer |-> SequentialSerializer], RaceValue(t))

\* C10: in every interleaving of two concurrent calls that start while the
\* field's serializer is unset, each call converts the value with the
\* serializer, and so to the result, it would get if the calls ran one after
\* the other.
C10_RaceAsSequential ==
    pc # <<>> => \A t \in Calls : pc[t] = "done" => used[t] = SequentialResult(t)

\* C10, the interleavings the claim says exist: both calls attach.
C10_BothAttach ==
    /\ pc # <<>>
    /\ \A t \in Calls : pc[t] = "done" /\ fwrites[t] >= 1

====
